---- MODULE Spec2Model ----
(***************************************************************************)
(* pyMOI: estimation of the multiplicity of infection from aligned reads   *)
(* and known SNP positions (src/pymoi/main.py, src/pymoi/models.py).       *)
(*                                                                         *)
(* The module holds six specifications  over one set of variables:         *)
(*   SpecCmp       GenomePosition.__lt__ / __eq__ on drawn positions       *)
(*   SpecTriplets  get_triplets on a drawn VCF and maxdist                   *)
(*   SpecCounts    get_haplotype_counts / get_alleles, one step per read,  *)
(*                 followed by the filter of get_num_haplotype             *)
(*   SpecNumHap    get_num_haplotype on drawn count tables                 *)
(*   SpecMinCount  get_num_haplotype called twice on one table             *)
(*   SpecMain      main: triplets, per-triplet counts, sort, percentile    *)
(* Variables a specification does not use keep their idle value.           *)
(***************************************************************************)
EXTENDS Integers, Sequences, FiniteSets, TLC

VARIABLES
    pc,                  \* position of the running function
    self, other, cmp,    \* GenomePosition comparison: operands and outcome
    vcf, maxdist,        \* inputs of get_triplets / main
    snp_positions,       \* main.py:75
    triplets,            \* main.py:78
    positions,           \* the MarkerSet handed to get_haplotype_counts
    read,                \* the read bam.fetch yielded last (main.py:42)
    nreads,              \* how many reads fetch has yielded
    allele_combinations, \* main.py:38
    counts,              \* main.py:54 / main.py:62
    min_count,           \* numerator of min_count over MinCountDen
    num_haps,            \* main.py:69 / main.py:100
    previous,            \* arguments and result of the call before this one
    tidx,                \* index into triplets in the loop of main.py:99
    haplotype_counts,    \* main.py:98
    moi                  \* main.py:114

vars == <<pc, self, other, cmp, vcf, maxdist, snp_positions, triplets,
          positions, read, nreads, allele_combinations, counts, min_count,
          num_haps, previous, tidx, haplotype_counts, moi>>

cmpVars == <<self, other, cmp>>
tripletVars == <<vcf, maxdist, snp_positions, triplets>>
countVars == <<positions, read, nreads, allele_combinations>>
numhapVars == <<counts, min_count, num_haps, previous>>
mainVars == <<tidx, haplotype_counts, moi>>

(***************************************************************************)
(* Bounds of the model.                                                    *)
(***************************************************************************)
MaxPos == 5          \* coordinates are 1..MaxPos
MaxSnps == 4         \* variant records in the VCF of SpecTriplets
MaxDist == 2         \* maxdist is 0..MaxDist
MinCountDen == 10    \* min_count is a multiple of 1/MinCountDen
MaxMinCount == 100   \* min_count is 0/MinCountDen .. MaxMinCount/MinCountDen
MaxCount == 15       \* read support of one allele combination in SpecNumHap
MaxCountTwice == 4   \* the same in SpecMinCount
MaxMinCountTwice == 25  \* numerators of min_count in SpecMinCount
MaxReads == 2        \* reads one fetch yields in SpecCounts
MaxSnpsMain == 13    \* variant records in the VCF of SpecMain
MaxCountMain == 2    \* read support of one allele combination in SpecMain

Chroms == {"1", "2"}

None == "None"

(***************************************************************************)
(* models.py: GenomePosition and GenomeRange                               *)
(***************************************************************************)
GenomePosition(chrom, pos) == [chrom |-> chrom, pos |-> pos]

GenomeRange(chrom, start, end) == [chrom |-> chrom, start |-> start, end |-> end]

AllPositions == {GenomePosition(c, n) : c \in Chroms, n \in 1..MaxPos}

\* mutant: <= in place of <
GenomePosition_lt_le(a, b) ==
    IF a.chrom # b.chrom
    THEN [raised |-> "ValueError", value |-> FALSE]
    ELSE [raised |-> None, value |-> a.pos <= b.pos]

\* GenomePosition.__lt__: raises ValueError across chromosomes.
GenomePosition_lt(a, b) ==
    IF a.chrom # b.chrom
    THEN [raised |-> "ValueError", value |-> FALSE]
    ELSE [raised |-> None, value |-> a.pos < b.pos]

\* pydantic's BaseModel.__eq__: same type and same field values.
GenomePosition_eq(a, b) == a.chrom = b.chrom /\ a.pos = b.pos

\* mutant: the range is open at its end
GenomeRange_contains_open(gr, p) ==
    p.chrom = gr.chrom /\ p.pos >= gr.start /\ p.pos < gr.end

\* GenomeRange.__contains__
GenomeRange_contains(gr, p) ==
    IF p.chrom = gr.chrom /\ p.pos >= gr.start /\ p.pos <= gr.end
    THEN TRUE
    ELSE FALSE

(***************************************************************************)
(* Python helpers                                                          *)
(***************************************************************************)
\* s[:n]
Slice(s, n) == IF Len(s) <= n THEN s ELSE SubSeq(s, 1, n)

\* all sequences over S of length 0..n
SeqsUpTo(S, n) == UNION {[1..k -> S] : k \in 0..n}

(***************************************************************************)
(* main.py: get_triplets                                                   *)
(***************************************************************************)
TripletSize == 3

\* main.py:81, [p for p in snp_positions if p in gr]
PositionsIn(snps, gr) ==
    LET InRange(q) == GenomeRange_contains(gr, q)
    IN SelectSeq(snps, InRange)

\* mutant: the window reaches one coordinate too far
TripletOf_wide(snps, p, dist) ==
    LET gr == GenomeRange(p.chrom, p.pos, p.pos + dist + 1)
    IN Slice(PositionsIn(snps, gr), TripletSize)

\* main.py:80-81, the candidate MarkerSet of anchor p
TripletOf(snps, p, dist) ==
    LET gr == GenomeRange(p.chrom, p.pos, p.pos + dist)
    IN Slice(PositionsIn(snps, gr), TripletSize)

\* main.py:79-83, one turn of the loop
TripletStep(acc, snps, p, dist) ==
    LET ps == TripletOf(snps, p, dist)
    IN IF Len(ps) = TripletSize THEN Append(acc, ps) ELSE acc

\* main.py:76-77
ReadVariantsOf(records) ==
    [i \in 1..Len(records) |-> GenomePosition(records[i].contig, records[i].pos)]

RECURSIVE TripletLoop(_, _, _, _)
TripletLoop(acc, snps, i, dist) ==
    IF i > Len(snps) THEN acc
    ELSE TripletLoop(TripletStep(acc, snps, snps[i], dist), snps, i + 1, dist)

\* get_triplets as a whole, as main calls it
get_triplets(records, dist) == TripletLoop(<<>>, ReadVariantsOf(records), 1, dist)

(***************************************************************************)
(* main.py: get_num_haplotype, lines 63-69, on the table of line 62         *)
(* min_count is the rational mc / MinCountDen; a threshold is kept as its  *)
(* numerator over MinCountDen, and v > threshold is v * MinCountDen > num. *)
(***************************************************************************)
\* sum(counts.values())
RECURSIVE SumOver(_, _)
SumOver(c, keys) ==
    IF keys = {} THEN 0
    ELSE LET k == CHOOSE x \in keys : TRUE
         IN c[k] + SumOver(c, keys \ {k})

SumValues(c) == SumOver(c, DOMAIN c)

\* mutant: v >= threshold in both branches
FilteredCounts_ge(c, mc) ==
    IF mc < MinCountDen
    THEN LET temp_count == SumValues(c) * mc
         IN {k \in DOMAIN c : c[k] * MinCountDen >= temp_count}
    ELSE {k \in DOMAIN c : c[k] * MinCountDen >= mc}

\* mutant: the comparison inverted, v < threshold
FilteredCounts_below(c, mc) ==
    IF mc < MinCountDen
    THEN LET temp_count == SumValues(c) * mc
         IN {k \in DOMAIN c : c[k] * MinCountDen < temp_count}
    ELSE {k \in DOMAIN c : c[k] * MinCountDen < mc}

\* main.py:63-68, the keys of filtered_counts
FilteredCounts(c, mc) ==
    IF mc < MinCountDen
    THEN LET temp_count == SumValues(c) * mc
         IN {k \in DOMAIN c : c[k] * MinCountDen > temp_count}
    ELSE {k \in DOMAIN c : c[k] * MinCountDen > mc}

\* main.py:69
NumHaplotype(c, mc) == Cardinality(FilteredCounts(c, mc))

Haplotypes == {"AAG", "AAT"}

\* the tables a Counter can be: some keys, each with a count >= 1
TablesUpTo(n) == UNION {[K -> 1..n] : K \in SUBSET Haplotypes}

(***************************************************************************)
(* pysam reads, as get_haplotype_counts and get_alleles see them           *)
(***************************************************************************)
MinMapQ == 10        \* main.py:43
MinBaseQ == 12       \* main.py:25
NoPos == -1          \* a None read_pos / ref_pos of get_aligned_pairs
NoQualities == <<>>  \* query_qualities is None

\* the reference the reads are aligned to, coordinates 1..RefLen, and the
\* base a mismatching read carries
Reference == <<"A", "A", "G">>
RefLen == Len(Reference)
AltBase == "T"
\* the coordinates at which reads may differ from the reference
VariantSites == {2, 3}

\* str.islower / str.upper on one nucleotide
IsLower(nt) == nt \in {"a", "c", "g", "t"}
Upper(nt) ==
    CASE nt = "a" -> "A" [] nt = "c" -> "C" [] nt = "g" -> "G"
      [] nt = "t" -> "T" [] OTHER -> nt
Lower(nt) ==
    CASE nt = "A" -> "a" [] nt = "C" -> "c" [] nt = "G" -> "g"
      [] nt = "T" -> "t" [] OTHER -> nt

\* How a read lies on each reference coordinate: not covered, deleted, or an
\* aligned base that matches or mismatches, with its base quality.
ColumnKinds == {"absent", "del", "match", "mismatch"}
Columns ==
    {[kind |-> k, qual |-> q] : k \in ColumnKinds, q \in {MinBaseQ - 1, MinBaseQ}}

Covered(layout) == {r \in 1..RefLen : layout[r].kind # "absent"}

\* an alignment covers a stretch of the reference that starts and ends with
\* an aligned base; a column without a base has no quality to vary
ValidLayout(layout) ==
    /\ Covered(layout) # {}
    /\ \A r1, r2 \in Covered(layout) :
          \A r \in r1..r2 : r \in Covered(layout)
    /\ \A r \in Covered(layout) :
          ((r - 1) \notin Covered(layout) \/ (r + 1) \notin Covered(layout))
              => layout[r].kind # "del"
    /\ \A r \in 1..RefLen :
          layout[r].kind \in {"absent", "del"} => layout[r].qual = MinBaseQ
    /\ \A r \in 1..RefLen : layout[r].kind = "mismatch" => r \in VariantSites

Layouts == {layout \in [1..RefLen -> Columns] : ValidLayout(layout)}

\* get_aligned_pairs(with_seq=True), query_sequence and query_qualities of a
\* read with this layout; acc holds what the columns before r gave
RECURSIVE AlignColumns(_, _, _)
AlignColumns(layout, r, acc) ==
    IF r > RefLen THEN acc
    ELSE LET col == layout[r]
             read_pos == Len(acc.seq)
         IN CASE col.kind = "absent" -> AlignColumns(layout, r + 1, acc)
              [] col.kind = "del" ->
                   AlignColumns(layout, r + 1,
                       [acc EXCEPT !.pairs =
                           Append(@, <<NoPos, r - 1, Reference[r]>>)])
              [] col.kind = "match" ->
                   AlignColumns(layout, r + 1,
                       [pairs |-> Append(acc.pairs, <<read_pos, r - 1, Reference[r]>>),
                        seq |-> Append(acc.seq, Reference[r]),
                        quals |-> Append(acc.quals, col.qual)])
              [] OTHER ->
                   AlignColumns(layout, r + 1,
                       [pairs |-> Append(acc.pairs,
                                     <<read_pos, r - 1, Lower(Reference[r])>>),
                        seq |-> Append(acc.seq, AltBase),
                        quals |-> Append(acc.quals, col.qual)])

\* a soft-clipped first base is a pair without reference position or base
ClippedStart(softclip) ==
    IF softclip
    THEN [pairs |-> << <<0, NoPos, None>> >>, seq |-> <<AltBase>>,
          quals |-> <<MinBaseQ>>]
    ELSE [pairs |-> <<>>, seq |-> <<>>, quals |-> <<>>]

BuildRead(chrom, layout, softclip, mapq, flag, hasq) ==
    LET al == AlignColumns(layout, 1, ClippedStart(softclip))
    IN [reference_name |-> chrom,
        mapping_quality |-> mapq,
        is_secondary |-> (flag = "secondary"),
        is_supplementary |-> (flag = "supplementary"),
        is_unmapped |-> (flag = "unmapped"),
        aligned_pairs |-> al.pairs,
        query_sequence |-> al.seq,
        query_qualities |-> IF hasq THEN al.quals ELSE NoQualities,
        \* 0-based, reference_end one past the last aligned coordinate
        reference_start |-> (CHOOSE r \in Covered(layout) :
                                \A x \in Covered(layout) : r <= x) - 1,
        reference_end |-> CHOOSE r \in Covered(layout) :
                                \A x \in Covered(layout) : x <= r]

FullyCalled(layout) ==
    \A r \in Covered(layout) :
        layout[r].kind \in {"match", "mismatch"} /\ layout[r].qual = MinBaseQ

\* The reads a fetch on chrom may yield: every valid layout for a read that
\* passes the read filters; for a read that fails one of them, or has no
\* qualities, the layouts whose bases all have quality MinBaseQ.
ReadsOn(chrom) ==
    {BuildRead(chrom, layout, softclip, MinMapQ, "none", TRUE) :
        layout \in Layouts, softclip \in BOOLEAN}
    \cup
    {BuildRead(chrom, layout, FALSE, MinMapQ - 1, "none", TRUE) :
        layout \in {l \in Layouts : FullyCalled(l)}}
    \cup
    {BuildRead(chrom, layout, FALSE, MinMapQ, flag, TRUE) :
        layout \in {l \in Layouts : FullyCalled(l)},
        flag \in {"secondary", "supplementary", "unmapped"}}
    \cup
    {BuildRead(chrom, layout, softclip, MinMapQ, "none", FALSE) :
        layout \in {l \in Layouts : \A r \in 1..RefLen : l[r].qual = MinBaseQ},
        softclip \in BOOLEAN}

\* the value of read before fetch has yielded any
NoRead ==
    [reference_name |-> None, mapping_quality |-> 0, is_secondary |-> FALSE,
     is_supplementary |-> FALSE, is_unmapped |-> FALSE, aligned_pairs |-> <<>>,
     query_sequence |-> <<>>, query_qualities |-> NoQualities,
     reference_start |-> 0, reference_end |-> 0]

\* the reads of the alignment file
BamReads == ReadsOn("1")

(***************************************************************************)
(* main.py: get_alleles                                                    *)
(***************************************************************************)
\* p in positions, by GenomePosition.__eq__
InPositions(p, poss) == \E i \in 1..Len(poss) : GenomePosition_eq(poss[i], p)

\* alleles[p] = read_nt
SetAllele(alleles, p, nt) ==
    [q \in (DOMAIN alleles) \cup {p} |-> IF q = p THEN nt ELSE alleles[q]]

\* main.py:17-30, from the i-th aligned pair on
RECURSIVE AllelesLoop(_, _, _, _)
AllelesLoop(rd, poss, i, alleles) ==
    IF i > Len(rd.aligned_pairs)
    THEN [raised |-> None, alleles |-> alleles]
    ELSE LET read_pos == rd.aligned_pairs[i][1]
             ref_pos == rd.aligned_pairs[i][2]
             read_nt == rd.aligned_pairs[i][3]
             continue == AllelesLoop(rd, poss, i + 1, alleles)
         IN IF read_nt = None THEN continue
            ELSE IF read_pos = NoPos THEN continue
            ELSE LET p == GenomePosition(rd.reference_name, ref_pos + 1)
                 IN IF ~InPositions(p, poss) THEN continue
                    ELSE IF rd.query_qualities = NoQualities
                    THEN [raised |-> "TypeError", alleles |-> alleles]
                    ELSE IF rd.query_qualities[read_pos + 1] < MinBaseQ
                    THEN continue
                    ELSE LET nt == IF IsLower(read_nt)
                                   THEN Upper(rd.query_sequence[read_pos + 1])
                                   ELSE read_nt
                         IN AllelesLoop(rd, poss, i + 1,
                                        SetAllele(alleles, p, nt))

\* main.py:11-32; value is [alleles.get(p) for p in positions]
get_alleles(rd, poss) ==
    LET r == AllelesLoop(rd, poss, 1, <<>>)
    IN [raised |-> r.raised,
        value |-> [i \in 1..Len(poss) |->
                     IF poss[i] \in DOMAIN r.alleles
                     THEN r.alleles[poss[i]] ELSE None]]

(***************************************************************************)
(* main.py: get_haplotype_counts                                           *)
(***************************************************************************)
\* ''.join(alleles)
RECURSIVE Join(_)
Join(strs) == IF strs = <<>> THEN "" ELSE Head(strs) \o Join(Tail(strs))

\* all(alleles): None is falsy, a nucleotide is truthy
All(alleles) == \A i \in 1..Len(alleles) : alleles[i] # None

\* min(positions) / max(positions), by GenomePosition.__lt__
RECURSIVE MinPosition(_)
MinPosition(poss) ==
    IF Len(poss) = 1 THEN poss[1]
    ELSE LET m == MinPosition(Tail(poss))
         IN IF GenomePosition_lt(m, Head(poss)).value THEN m ELSE Head(poss)

RECURSIVE MaxPosition(_)
MaxPosition(poss) ==
    IF Len(poss) = 1 THEN poss[1]
    ELSE LET m == MaxPosition(Tail(poss))
         IN IF GenomePosition_lt(Head(poss), m).value THEN m ELSE Head(poss)

\* bam.fetch(contig, start, end): the reads on contig whose alignment
\* overlaps the 0-based half-open interval [start, end); an empty interval
\* (start = end) yields no read
Fetchable(rd, contig, start, end) ==
    /\ rd.reference_name = contig
    /\ start < end
    /\ rd.reference_start < end
    /\ rd.reference_end > start

\* mutant: a mapping quality of MinMapQ is discarded too
PassesReadFilters_le(rd) ==
    /\ ~(rd.mapping_quality <= MinMapQ)
    /\ ~rd.is_secondary
    /\ ~rd.is_supplementary
    /\ ~rd.is_unmapped

\* main.py:43-50, the reads that are not skipped
PassesReadFilters(rd) ==
    /\ ~(rd.mapping_quality < MinMapQ)
    /\ ~rd.is_secondary
    /\ ~rd.is_supplementary
    /\ ~rd.is_unmapped

\* main.py:43-53, one turn of the loop over the fetched reads
ReadStep(acc, rd, poss) ==
    IF ~PassesReadFilters(rd)
    THEN [raised |-> None, value |-> acc]
    ELSE LET alleles == get_alleles(rd, poss)
         IN IF alleles.raised # None
            THEN [raised |-> alleles.raised, value |-> acc]
            ELSE IF All(alleles.value)
            THEN [raised |-> None, value |-> Append(acc, Join(alleles.value))]
            ELSE [raised |-> None, value |-> acc]

\* collections.Counter of a list
Counter(list) ==
    [k \in {list[i] : i \in 1..Len(list)} |->
        Cardinality({i \in 1..Len(list) : list[i] = k})]

\* the MarkerSets get_triplets can hand over on a sorted VCF: 3 positions of
\* one chromosome, ascending, a coordinate possibly repeated
MarkerSets ==
    {<<GenomePosition(c, x), GenomePosition(c, y), GenomePosition(c, z)>> :
        c \in {"1"}, x \in 1..RefLen, y \in 1..RefLen, z \in 1..RefLen}
    \cap {t \in [1..3 -> AllPositions] : t[1].pos <= t[2].pos /\ t[2].pos <= t[3].pos}

(***************************************************************************)
(* main.py: main, lines 108-114                                            *)
(***************************************************************************)
\* list.sort(), ascending
RECURSIVE Insert(_, _)
Insert(x, sorted) ==
    IF sorted = <<>> THEN <<x>>
    ELSE IF x <= Head(sorted) THEN <<x>> \o sorted
    ELSE <<Head(sorted)>> \o Insert(x, Tail(sorted))

RECURSIVE Sort(_)
Sort(list) == IF list = <<>> THEN <<>> ELSE Insert(Head(list), Sort(Tail(list)))

\* mutant: the last index, the largest count
PercentileIndex_last(n) == IF n = 0 THEN 0 ELSE n - 1

\* main.py:114, int(len(haplotype_counts)*0.9): the double n*0.9 truncated,
\* which is floor(9n/10) (0.9 is stored slightly above 9/10 and the product
\* rounds to the integer 9n/10 when n is a multiple of 10)
PercentileIndex(n) == (n * 9) \div 10

\* main.py:108-114: the sorted list and the MOI, or the IndexError of an
\* index outside the list (0-based index i is element i + 1)
Aggregate(list) ==
    LET sorted == Sort(list)
        i == PercentileIndex(Len(sorted))
    IN IF i >= Len(sorted)
       THEN [raised |-> "IndexError", sorted |-> sorted, moi |-> 0]
       ELSE [raised |-> None, sorted |-> sorted, moi |-> sorted[i + 1]]

\* the VCFs of SpecMain: n records at coordinates 1..n of chromosome "1"
MainVcfs ==
    {[i \in 1..n |-> [contig |-> "1", pos |-> i]] : n \in 0..MaxSnpsMain}

VariantRecords == {[contig |-> c, pos |-> n] : c \in Chroms, n \in 1..MaxPos}

IdleCmp == self = None /\ other = None /\ cmp = None
IdleTriplets ==
    /\ vcf = <<>> /\ maxdist = 0 /\ snp_positions = <<>>
    /\ triplets = <<>>
IdleCounts ==
    /\ positions = <<>> /\ read = NoRead /\ nreads = 0
    /\ allele_combinations = <<>>
IdleNumHap == counts = <<>> /\ min_count = 0 /\ num_haps = 0 /\ previous = None
IdleMain == tidx = 0 /\ haplotype_counts = <<>> /\ moi = 0

(***************************************************************************)
(* SpecCmp: a < b, b < a and a == b on drawn positions                     *)
(***************************************************************************)
InitCmp ==
    /\ pc = "compare"
    /\ self \in AllPositions /\ other \in AllPositions
    /\ cmp = None
    /\ IdleTriplets /\ IdleCounts /\ IdleNumHap /\ IdleMain

Compare ==
    /\ pc = "compare"
    /\ cmp' = [lt |-> GenomePosition_lt(self, other),
               gt |-> GenomePosition_lt(other, self),
               eq |-> GenomePosition_eq(self, other)]
    /\ pc' = "compared"
    /\ UNCHANGED <<self, other, tripletVars, countVars, numhapVars, mainVars>>

NextCmp == Compare

SpecCmp == InitCmp /\ [][NextCmp]_vars

(***************************************************************************)
(* SpecTriplets: get_triplets on a drawn VCF                               *)
(***************************************************************************)
InitTriplets ==
    /\ pc = "get_triplets"
    /\ vcf \in SeqsUpTo(VariantRecords, MaxSnps)
    \* contig names are interchangeable: the first record's is called "1"
    /\ vcf # <<>> => vcf[1].contig = "1"
    /\ maxdist \in 0..MaxDist
    /\ snp_positions = <<>> /\ triplets = <<>>
    /\ IdleCmp /\ IdleCounts /\ IdleNumHap /\ IdleMain

\* main.py:71-84, the whole call
GetTriplets ==
    /\ pc = "get_triplets"
    /\ snp_positions' = ReadVariantsOf(vcf)
    /\ triplets' = get_triplets(vcf, maxdist)
    /\ pc' = "triplets_returned"
    /\ UNCHANGED <<vcf, maxdist, cmpVars, countVars, numhapVars, mainVars>>

NextTriplets == GetTriplets

SpecTriplets == InitTriplets /\ [][NextTriplets]_vars

(***************************************************************************)
(* SpecNumHap: get_num_haplotype on a drawn table and min_count            *)
(***************************************************************************)
InitNumHap ==
    /\ pc = "get_num_haplotype"
    /\ counts \in TablesUpTo(MaxCount)
    /\ min_count \in 0..MaxMinCount
    /\ num_haps = 0 /\ previous = None
    /\ IdleCmp /\ IdleTriplets /\ IdleCounts /\ IdleMain

\* main.py:63-69
GetNumHaplotype ==
    /\ pc = "get_num_haplotype"
    /\ num_haps' = NumHaplotype(counts, min_count)
    /\ pc' = "num_returned"
    /\ UNCHANGED <<counts, min_count, previous, cmpVars, tripletVars, countVars,
                   mainVars>>

NextNumHap == GetNumHaplotype

SpecNumHap == InitNumHap /\ [][NextNumHap]_vars

(***************************************************************************)
(* SpecMinCount: get_num_haplotype on one table, then once more with       *)
(* another min_count                                                       *)
(***************************************************************************)
InitMinCount ==
    /\ pc = "get_num_haplotype"
    /\ counts \in TablesUpTo(MaxCountTwice)
    /\ min_count \in 0..MaxMinCountTwice
    /\ num_haps = 0 /\ previous = None
    /\ IdleCmp /\ IdleTriplets /\ IdleCounts /\ IdleMain

\* main.py:63-69 again, the table unchanged
GetNumHaplotypeAgain ==
    /\ pc = "num_returned"
    /\ previous' = [min_count |-> min_count, num_haps |-> num_haps]
    /\ \E m \in 0..MaxMinCountTwice :
          /\ min_count' = m
          /\ num_haps' = NumHaplotype(counts, m)
    /\ pc' = "num_returned_again"
    /\ UNCHANGED <<counts, cmpVars, tripletVars, countVars, mainVars>>

NextMinCount == GetNumHaplotype \/ GetNumHaplotypeAgain

SpecMinCount == InitMinCount /\ [][NextMinCount]_vars

(***************************************************************************)
(* SpecCounts: get_haplotype_counts on a drawn MarkerSet, one step per     *)
(* read the fetch yields                                                   *)
(***************************************************************************)
InitCounts ==
    /\ pc = "fetch"
    /\ positions \in MarkerSets
    /\ read = NoRead /\ nreads = 0
    /\ allele_combinations = <<>>
    /\ counts = <<>>
    /\ min_count = 0 /\ num_haps = 0 /\ previous = None
    /\ IdleCmp /\ IdleTriplets /\ IdleMain

\* main.py:42-53: fetch yields one more read
FetchRead ==
    /\ pc = "fetch"
    /\ nreads < MaxReads
    /\ LET chrom == positions[1].chrom
           start == MinPosition(positions).pos
           end == MaxPosition(positions).pos
       IN \E rd \in BamReads :
            /\ Fetchable(rd, chrom, start, end)
            /\ read' = rd
            /\ LET r == ReadStep(allele_combinations, rd, positions)
               IN /\ allele_combinations' = r.value
                  /\ pc' = IF r.raised # None THEN r.raised ELSE "fetch"
    /\ nreads' = nreads + 1
    /\ UNCHANGED <<positions, numhapVars, cmpVars, tripletVars, mainVars>>

\* main.py:54-55: fetch is exhausted
CountsReturn ==
    /\ pc = "fetch"
    /\ counts' = Counter(allele_combinations)
    /\ pc' = "counts_returned"
    /\ UNCHANGED <<countVars, min_count, num_haps, previous, cmpVars,
                   tripletVars, mainVars>>

NextCounts == FetchRead \/ CountsReturn

SpecCounts == InitCounts /\ [][NextCounts]_vars

(***************************************************************************)
(* SpecMain: main on a drawn VCF; the alignment file gives each MarkerSet  *)
(* a drawn table                                                           *)
(***************************************************************************)
InitMain ==
    /\ pc = "main"
    /\ vcf \in MainVcfs
    /\ maxdist \in 0..MaxDist
    /\ min_count = MinCountDen
    /\ snp_positions = <<>> /\ triplets = <<>>
    /\ counts = <<>> /\ num_haps = 0 /\ previous = None
    /\ tidx = 0 /\ haplotype_counts = <<>> /\ moi = 0
    /\ IdleCmp /\ IdleCounts

\* main.py:93-98
MainGetTriplets ==
    /\ pc = "main"
    /\ snp_positions' = ReadVariantsOf(vcf)
    /\ triplets' = get_triplets(vcf, maxdist)
    /\ haplotype_counts' = <<>>
    /\ tidx' = 1
    /\ pc' = "loop"
    /\ UNCHANGED <<vcf, maxdist, moi, numhapVars, cmpVars, countVars>>

\* main.py:99-106, one MarkerSet; c is the table of main.py:62
MainLoop ==
    /\ pc = "loop"
    /\ tidx <= Len(triplets)
    /\ \E c \in TablesUpTo(MaxCountMain) :
          num_haps' = NumHaplotype(c, min_count)
    /\ haplotype_counts' = IF num_haps' > 0
                           THEN Append(haplotype_counts, num_haps')
                           ELSE haplotype_counts
    /\ tidx' = tidx + 1
    /\ UNCHANGED <<pc, moi, counts, min_count, previous, tripletVars, cmpVars,
                   countVars>>

\* main.py:108-123
MainAggregate ==
    /\ pc = "loop"
    /\ tidx > Len(triplets)
    /\ LET r == Aggregate(haplotype_counts)
       IN /\ haplotype_counts' = r.sorted
          /\ moi' = r.moi
          /\ pc' = IF r.raised # None THEN r.raised ELSE "done"
    /\ UNCHANGED <<tidx, numhapVars, tripletVars, cmpVars, countVars>>

NextMain == MainGetTriplets \/ MainLoop \/ MainAggregate

SpecMain == InitMain /\ [][NextMain]_vars

(***************************************************************************)
(* Claims about get_triplets                                               *)
(***************************************************************************)
SortedWithinChrom(s) ==
    \A i, j \in 1..Len(s) :
        (i < j /\ s[i].chrom = s[j].chrom) => s[i].pos <= s[j].pos

\* indices of the input positions in the window of the anchor at index i
Window(i) ==
    {j \in 1..Len(snp_positions) :
        /\ snp_positions[j].chrom = snp_positions[i].chrom
        /\ snp_positions[j].pos >= snp_positions[i].pos
        /\ snp_positions[j].pos <= snp_positions[i].pos + maxdist}

\* the m-th smallest element of a set of indices
Nth(S, m) == CHOOSE j \in S : Cardinality({x \in S : x < j}) = m - 1

\* the anchors that have at least 3 input positions in their window
Emitting == {i \in 1..Len(snp_positions) : Cardinality(Window(i)) >= 3}

Span(t) ==
    LET ps == {t[m].pos : m \in 1..Len(t)}
    IN (CHOOSE x \in ps : \A y \in ps : y <= x)
       - (CHOOSE x \in ps : \A y \in ps : x <= y)

\* C3: on input sorted ascending within each chromosome, the MarkerSets
\* returned are, anchor by anchor in input order, the first 3 input positions
\* on the anchor's chromosome with coordinate in [p.pos, p.pos + maxdist];
\* an anchor with fewer than 3 such positions emits nothing.
C3_FirstThreeInWindow ==
    (pc = "triplets_returned" /\ SortedWithinChrom(snp_positions)) =>
        /\ Len(triplets) = Cardinality(Emitting)
        /\ \A i \in Emitting :
              LET t == triplets[Cardinality({e \in Emitting : e <= i})]
              IN /\ Len(t) = 3
                 /\ \A m \in 1..3 : t[m] = snp_positions[Nth(Window(i), m)]

\* positions 1, 2, 3, 5 on chromosome "1" with maxdist 2 (the shape of
\* 100, 150, 200, 900 with maxdist 500): one MarkerSet, {1, 2, 3}
C3_Witness ==
    /\ pc = "triplets_returned"
    /\ maxdist = 2
    /\ snp_positions = <<GenomePosition("1", 1), GenomePosition("1", 2),
                         GenomePosition("1", 3), GenomePosition("1", 5)>>
    /\ triplets = << <<GenomePosition("1", 1), GenomePosition("1", 2),
                       GenomePosition("1", 3)>> >>

\* C4: whatever the order of the input, every MarkerSet returned has exactly
\* 3 positions and spans at most maxdist.
C4_ThreeWithinMaxdist ==
    \A k \in 1..Len(triplets) :
        Len(triplets[k]) = 3 /\ Span(triplets[k]) <= maxdist

\* an unsorted input on two chromosomes giving a MarkerSet of span maxdist
C4_Witness ==
    /\ pc = "triplets_returned"
    /\ ~SortedWithinChrom(snp_positions)
    /\ \E i \in 1..Len(snp_positions) : snp_positions[i].chrom = "2"
    /\ \E k \in 1..Len(triplets) : Span(triplets[k]) = maxdist /\ maxdist > 0

\* C9: on input ordered ascending (non-decreasing) within each chromosome,
\* several records allowed at one coordinate, every MarkerSet returned is 3
\* pairwise distinct positions of one chromosome in strictly ascending order.
C9_DistinctAscending ==
    SortedWithinChrom(snp_positions) =>
        \A k \in 1..Len(triplets) :
            LET t == triplets[k]
            IN /\ Len(t) = 3
               /\ t[1].chrom = t[2].chrom /\ t[2].chrom = t[3].chrom
               /\ t[1].pos < t[2].pos /\ t[2].pos < t[3].pos

(***************************************************************************)
(* Claims about GenomePosition                                             *)
(***************************************************************************)
BoolCount(b) == IF b THEN 1 ELSE 0

\* C8: on one chromosome exactly one of a < b, a == b, b < a holds (and none
\* raises); across chromosomes a < b raises instead of returning a boolean.
C8_TrichotomyOrError ==
    pc = "compared" =>
        IF self.chrom = other.chrom
        THEN /\ cmp.lt.raised = None /\ cmp.gt.raised = None
             /\ BoolCount(cmp.lt.value) + BoolCount(cmp.eq)
                  + BoolCount(cmp.gt.value) = 1
        ELSE cmp.lt.raised = "ValueError"

\* two positions at one coordinate of different chromosomes: a < b raised
C8_Witness ==
    /\ pc = "compared"
    /\ self.chrom # other.chrom /\ self.pos = other.pos
    /\ cmp.lt.raised = "ValueError"

(***************************************************************************)
(* Claims about get_num_haplotype                                          *)
(***************************************************************************)
TotalReads == SumValues(counts)

\* numerator over MinCountDen of the threshold the claim describes
ThresholdNum(mc) == IF mc < MinCountDen THEN TotalReads * mc ELSE mc

C6_MonotoneInMinCount ==
    (pc = "num_returned_again" /\ previous.min_count <= min_count) =>
        num_haps <= previous.num_haps

SameBranch(m1, m2) == (m1 < MinCountDen) <=> (m2 < MinCountDen)

\* C6 amended: the same, for m1 <= m2 on the same side of 1 (both < 1, the
\* fraction of total reads, or both >= 1, the absolute read count).
C6_MonotoneSameBranch ==
    (/\ pc = "num_returned_again"
     /\ previous.min_count <= min_count
     /\ SameBranch(previous.min_count, min_count)) =>
        num_haps <= previous.num_haps

\* two fractions of one table, the larger one retaining strictly fewer
C6_Witness ==
    /\ pc = "num_returned_again"
    /\ previous.min_count < min_count
    /\ min_count < MinCountDen
    /\ num_haps < previous.num_haps

(***************************************************************************)
(* Claims about get_haplotype_counts and get_alleles                       *)
(***************************************************************************)
\* the aligned pairs of rd that put a base of the read on position p
BasesAt(rd, p) ==
    {j \in 1..Len(rd.aligned_pairs) :
        /\ rd.aligned_pairs[j][1] # NoPos
        /\ rd.aligned_pairs[j][2] # NoPos
        /\ rd.aligned_pairs[j][2] + 1 = p.pos
        /\ rd.reference_name = p.chrom}

GoodBaseAt(rd, p) ==
    \E j \in BasesAt(rd, p) :
        /\ rd.query_qualities # NoQualities
        /\ rd.query_qualities[rd.aligned_pairs[j][1] + 1] >= 12

Qualifies(rd, poss) ==
    /\ rd.mapping_quality >= 10
    /\ ~rd.is_secondary /\ ~rd.is_supplementary /\ ~rd.is_unmapped
    /\ \A m \in 1..Len(poss) : GoodBaseAt(rd, poss[m])

\* the bases the read was sequenced with at the markers, in marker order
SequencedAt(rd, poss) ==
    Join([m \in 1..Len(poss) |->
            LET j == CHOOSE x \in BasesAt(rd, poss[m]) : TRUE
            IN rd.query_sequence[rd.aligned_pairs[j][1] + 1]])

Occurrences(list, k) == Cardinality({i \in 1..Len(list) : list[i] = k})

\* C5: a fetched read adds one entry, the bases it was sequenced with at the
\* markers, if and only if it has mapping quality >= 10, no secondary,
\* supplementary or unmapped flag, and an aligned base of quality >= 12 at
\* every marker; any other read adds nothing; and the table returned counts
\* exactly the entries added.
C5_ReadCountedIffQualifies ==
    [][/\ (nreads' = nreads + 1) =>
            allele_combinations' =
                IF Qualifies(read', positions)
                THEN Append(allele_combinations, SequencedAt(read', positions))
                ELSE allele_combinations
       /\ (pc' = "counts_returned") =>
            /\ \A k \in DOMAIN counts' :
                   counts'[k] = Occurrences(allele_combinations, k) /\ counts'[k] > 0
            /\ \A i \in 1..Len(allele_combinations) :
                   allele_combinations[i] \in DOMAIN counts'
      ]_vars

\* two reads counted under one combination, the second one carrying the
\* alternative base at a marker
C5_Witness ==
    /\ pc = "counts_returned"
    /\ nreads = 2
    /\ Qualifies(read, positions)
    /\ SequencedAt(read, positions) = "AAT"
    /\ counts["AAT"] = 2

\* C10: a read that passes the read filters, covers a marker and has no
\* base-quality array is skipped, and the run goes on.
C10_ReadWithoutQualitiesSkipped ==
    (/\ nreads > 0
     /\ read.mapping_quality >= 10
     /\ ~read.is_secondary /\ ~read.is_supplementary /\ ~read.is_unmapped
     /\ read.query_qualities = NoQualities
     /\ \E m \in 1..Len(positions) : BasesAt(read, positions[m]) # {}) =>
        pc \in {"fetch", "counts_returned"}

(***************************************************************************)
(* Claims about main                                                       *)
(***************************************************************************)
\* floor(n * 0.9): the integer k with k <= 9n/10 < k + 1
FloorNineTenths(n) == CHOOSE k \in 0..n : 10 * k <= 9 * n /\ 9 * n < 10 * (k + 1)

\* the element at 0-based index i of list sorted ascending: fewer than i + 1
\* elements are smaller, at least i + 1 are not larger
IsAtSortedIndex(list, i, v) ==
    /\ \E j \in 1..Len(list) : list[j] = v
    /\ Cardinality({j \in 1..Len(list) : list[j] < v}) <= i
    /\ Cardinality({j \in 1..Len(list) : list[j] <= v}) > i

\* C1: for a non-empty sequence of retained counts > 0, the MOI is the
\* element at 0-based index floor(n * 0.9) of the sequence sorted ascending.
C1_MoiIsPercentile ==
    [][(pc = "loop" /\ pc' # "loop" /\ haplotype_counts # <<>>) =>
          /\ pc' = "done"
          /\ IsAtSortedIndex(haplotype_counts,
                             FloorNineTenths(Len(haplotype_counts)), moi')
      ]_vars

\* 11 retained counts, the largest one a 2 that came first: index 9 of the
\* sorted sequence holds a 1
C1_Witness ==
    /\ pc = "done"
    /\ Len(haplotype_counts) = 11
    /\ haplotype_counts[10] = 1 /\ haplotype_counts[11] = 2
    /\ moi = 1

\* C7: with no MarkerSet of retained count > 0, main ends in an explicit
\* insufficient-data error, never in an out-of-range index.
C7_InsufficientDataError ==
    /\ pc # "IndexError"
    /\ (pc # "loop" /\ pc # "main" /\ haplotype_counts = <<>>) =>
            pc = "InsufficientDataError"

====
